---- MODULE Spec2Model ----
(***************************************************************************)
(* Model of the scoutfs status crawler (cmd_crawl.py): the fan-out        *)
(* scheduler crawl(), the per-task wrapper crawl_thread(), the recursive  *)
(* aggregator get_tree_attr(), the batched uploader begin_bulk() and the  *)
(* completion / exit logic.                                               *)
(*                                                                         *)
(* A task is one call of crawl_thread; it is named by the directory it    *)
(* crawls (its `top`).  Task 0 is the depth-0 pass over the root, tasks    *)
(* 1 and 2 are the first-level subdirectories.  The recursion of           *)
(* get_tree_attr is an explicit stack of frames.  A step of a task first   *)
(* does the thread-local part of one loop iteration (or of the code after  *)
(* the loop) and queues, in program order, the operations that touch       *)
(* shared state (`todo`); these are then executed one at a time, each      *)
(* `with crawl_lock:` block as an acquire step that reads and a commit     *)
(* step that writes and releases.                                          *)
(***************************************************************************)
EXTENDS Integers, Sequences, FiniteSets, TLC

\* ------------------------------------------------------------------ bounds
MaxSize == 2
MaxChunk == 2
MaxDepthArg == 2

\* ------------------------------------------------------- program constants
blocksize == 2
maxthreads == 2
EXIT_OK == 0
EXIT_WARNINGS == 78
EXIT_CRITICAL == 1
EXIT_STARTUP == 1

root == 0
Dirs == 0 .. 3
Tasks == 0 .. 2

VARIABLES
    tree,               \* the filesystem: directory id -> [st, ents]
    maxdepth,           \* --maxdepth of the scan command
    elastic_chunksize,  \* configured chunk size
    mpc,                \* position of the main thread
    subdir_list,        \* crawl(): first-level subdirectories, in scandir order
    pc,                 \* per task: new | queued | run | done | raised
    stack,              \* per task: frames of get_tree_attr, innermost last
    documents,          \* per task: the batch `documents`
    todo,               \* per task: queued shared-state operations
    snap,               \* per task: what it read when it took crawl_lock
    crawl_lock,         \* the set of tasks inside a `with crawl_lock:` block
    shared,             \* module globals guarded by crawl_lock
    flushed,            \* per task: the batches the backend accepted
    es,                 \* backend index state and lifecycle documents
    quit,
    emptyindex,
    exit_code,          \* <<>> while the process runs, then <<status>>
    appended,           \* history: per task, the records put into its batch
    agg,                \* history: per task, what get_tree_attr returned
    contrib,            \* history: per task, sum of the increments it made
    baseline,           \* history: what the depth-0 pass stored in sizes[root]
    uid_name,           \* cache: uid -> owner name
    gid_name,           \* cache: gid -> group name
    fileperm_lock,      \* the set of threads inside a `with fileperm_lock:`
    thread,             \* per pool thread: where it is in a lock or call site
    resolved            \* history: per pool thread, its last name resolution

vars == <<tree, maxdepth, elastic_chunksize, mpc, subdir_list, pc, stack,
          documents, todo, snap, crawl_lock, shared, flushed, es, quit,
          emptyindex, exit_code, appended, agg, contrib, baseline,
          uid_name, gid_name, fileperm_lock, thread, resolved>>

\* the name caches, their lock and the threads' positions at them
names == <<uid_name, gid_name, fileperm_lock, thread, resolved>>

\* -------------------------------------------------------------- filesystem
\* A directory entry: its kind k, its name nm (its position in the listing
\* as created), st_size sz, st_blocks bl, for a directory its id d, and enc:
\* whether the bytes of its name are valid UTF-8 ("utf8") or not ("invalid").
Sym == [k |-> "symlink", nm |-> 0, sz |-> 0, bl |-> 0, d |-> 0, enc |-> "utf8"]
File(s, b) ==
    [k |-> "file", nm |-> 0, sz |-> s, bl |-> b, d |-> 0, enc |-> "utf8"]
\* a regular file whose name holds invalid byte sequences
FileU(s, b) == [File(s, b) EXCEPT !.enc = "invalid"]
\* a directory entry whose stat() raises OSError (vanished, unreadable)
Bad == [k |-> "badfile", nm |-> 0, sz |-> 0, bl |-> 0, d |-> 0, enc |-> "utf8"]
Sub(n) == [k |-> "dir", nm |-> 0, sz |-> 0, bl |-> 0, d |-> n, enc |-> "utf8"]

\* A directory: st says whether os.stat ("staterr") or os.scandir
\* ("listerr") of it raises OSError; ents is its listing in scandir order.
Node(s, e) == [st |-> s, ents |-> [i \in 1 .. Len(e) |-> [e[i] EXCEPT !.nm = i]]]
Absent == Node("absent", <<>>)

Leaves ==
    {<<>>, <<Sym>>, <<File(0, 0)>>, <<File(1, 1), Bad>>}
        \cup {<<File(s, 1)>> : s \in 1 .. MaxSize}

RootLeaves == {<<>>, <<Sym>>, <<File(0, 0)>>, <<Sym, File(1, 1)>>, <<Bad>>}

\* directory 3, the only child directory below a first-level directory
Nodes3 ==
    {Node("ok", l) : l \in {<<>>, <<Sym>>, <<File(0, 0)>>, <<File(MaxSize, 1)>>}}
        \cup {Node("staterr", <<>>)}

\* directory 1: leaves and, optionally, the subdirectory 3 before or after
Nodes1 ==
    {Node("ok", l) : l \in Leaves}
        \cup {Node("ok", l \o <<Sub(3)>>) :
                l \in {<<>>, <<File(1, 1)>>, <<File(1, 1), Bad>>}}
        \cup {Node("ok", <<Sub(3)>> \o l) : l \in {<<File(1, 1), Bad>>}}
        \cup {Node("staterr", <<>>), Node("listerr", <<>>)}

Nodes2 ==
    {Node("ok", l) : l \in {<<File(0, 0)>>, <<File(0, 0), File(MaxSize, 0)>>,
                            <<FileU(1, 1), File(1, 1)>>}}
        \cup {Node("staterr", <<>>)}

HasSub(node, n) ==
    \E i \in 1 .. Len(node.ents) :
        node.ents[i].k = "dir" /\ node.ents[i].d = n

Trees ==
    {[d \in Dirs |->
        CASE d = 0 -> Node("ok", l0 \o k0)
          [] d = 1 -> IF k0 = <<>> THEN Absent ELSE n1
          [] d = 2 -> IF Len(k0) < 2 THEN Absent ELSE n2
          [] OTHER -> IF k0 # <<>> /\ HasSub(n1, 3) THEN n3 ELSE Absent]
     : l0 \in RootLeaves, k0 \in {<<>>, <<Sub(1)>>, <<Sub(1), Sub(2)>>},
       n1 \in Nodes1, n2 \in Nodes2, n3 \in Nodes3}

\* ------------------------------------------------------------------ records
Zero == [size |-> 0, size_du |-> 0, files |-> 0, dirs |-> 0]

NewFrame(path, depth) ==
    [path |-> path, depth |-> depth, idx |-> 1, size |-> 0, size_du |-> 0,
     files |-> 0, dirs |-> 0, f_count |-> 0, d_count |-> 0, total_docs |-> 0,
     file_skip_count |-> 0]

Aggregate(fr) ==
    [size |-> fr.size, size_du |-> fr.size_du, files |-> fr.files, dirs |-> fr.dirs]

\* content.name: the text of an entry's name and the validity of its bytes
Name(e) == [nm |-> e.nm, enc |-> e.enc]

\* util.handle_unicode: encode to UTF-8 and decode again; invalid sequences
\* raise UnicodeError when strict and are replaced when ignore_errors
handle_unicode(f, ignore_errors) ==
    IF f.enc # "invalid" THEN [raised |-> FALSE, text |-> f]
    ELSE IF ignore_errors
         THEN [raised |-> FALSE, text |-> [f EXCEPT !.enc = "replaced"]]
         ELSE [raised |-> TRUE, text |-> f]

get_file_name(file, ignore_errors) == handle_unicode(file, ignore_errors)

FileDoc(path, e, file_name) ==
    [type |-> "file", ino |-> <<path, e.nm>>, name |-> file_name,
     size |-> e.sz, size_du |-> e.bl * blocksize, file_count |-> 0,
     dir_count |-> 0]

DirDoc(fr) ==
    [type |-> "directory", ino |-> <<fr.path, 0>>,
     name |-> [nm |-> 0, enc |-> "utf8"], size |-> fr.size,
     size_du |-> fr.size_du, file_count |-> fr.files, dir_count |-> fr.dirs + 1]

NoCounters ==
    [warnings |-> 0, bulktime |-> 0, dircount |-> 0, filecount |-> 0,
     inodecount |-> 0, skipdircount |-> 0, skipfilecount |-> 0,
     total_documents |-> 0]

\* ------------------------------------------------- shared-state operations
WarnOp == [op |-> "warn"]
BulkOp(ds) == [op |-> "bulk", docs |-> ds]
BulkTimeOp == [op |-> "bulktime"]
TotalDocsOp(n) == [op |-> "totaldocs", n |-> n]
SetRootOp(data) == [op |-> "setroot", data |-> data]
SetTopOp(r) == [op |-> "settop", data |-> r]
MergeOp == [op |-> "merge"]
AppendPathOp == [op |-> "append"]
RemovePathOp == [op |-> "remove"]

StatsOp(fr, dir_skip_count) ==
    [op |-> "stats", total_docs |-> fr.total_docs, skipdir |-> dir_skip_count,
     inode |-> fr.d_count + fr.f_count, skipfile |-> fr.file_skip_count,
     dir |-> fr.d_count - dir_skip_count,
     file |-> fr.f_count - fr.file_skip_count]

\* ------------------------------------------------------------ get_tree_attr
\* A step of get_tree_attr on the filesystem fs yields [stk, docs, ops, new,
\* ret]: the task's stack and batch after the step, the shared-state
\* operations the step performs, in program order, the records it appended
\* to the batch, and <<r>> when the outermost call returned r to crawl_thread.

\* mutant: no entry is taken for a symbolic link
is_symlinkNever(e) == FALSE

\* content.is_symlink()
is_symlink(e) == e.k = "symlink"

\* content.is_dir()
is_dir(e) == e.k = "dir"

\* mutant: files of size 0 are indexed as well
IndexableAlways(e) == e.sz >= 0

\* `if fsize > 0`
Indexable(e) == e.sz > 0

\* mutant: the files of a subdirectory are not added to the caller's count
AddSubNoFiles(fr, r) ==
    [fr EXCEPT !.size = @ + r.size, !.size_du = @ + r.size_du,
               !.dirs = @ + r.dirs]

\* the recursive call's result added to the caller's running totals
AddSub(fr, r) ==
    [fr EXCEPT !.size = @ + r.size, !.size_du = @ + r.size_du,
               !.files = @ + r.files, !.dirs = @ + r.dirs]

\* the step goes on inside the call whose frame is fr
Continue(rest, fr, docs, ops, new) ==
    [stk |-> Append(rest, fr), docs |-> docs, ops |-> ops, new |-> new,
     ret |-> <<>>]

\* the innermost call (already removed from `rest`) returns r to its caller
Return(rest, r, docs, ops, new) ==
    [stk |-> IF rest = <<>> THEN <<>>
             ELSE [rest EXCEPT ![Len(rest)] = AddSub(@, r)],
     docs |-> docs, ops |-> ops, new |-> new,
     ret |-> IF rest = <<>> THEN <<r>> ELSE <<>>]

\* mutant: the traversal never flushes
ChunkFullNever(n) == FALSE

\* mutant: the batch is flushed only once it exceeds the chunk size
ChunkFullStrict(n) == n > elastic_chunksize

\* `document_count >= elastic_chunksize`
ChunkFull(n) == n >= elastic_chunksize

\* mutant: the batch is not cleared after it was flushed
EmitKeep(fr, docs, doc) ==
    LET ds == Append(docs, doc) IN
    IF ChunkFull(Len(ds))
    THEN [fr |-> [fr EXCEPT !.total_docs = @ + Len(ds)], docs |-> ds,
          ops |-> <<BulkOp(ds), BulkTimeOp>>]
    ELSE [fr |-> fr, docs |-> ds, ops |-> <<>>]

\* documents.append(data); flush and clear when the chunk size is reached
Emit(fr, docs, doc) ==
    LET ds == Append(docs, doc) IN
    IF ChunkFull(Len(ds))
    THEN [fr |-> [fr EXCEPT !.total_docs = @ + Len(ds)], docs |-> <<>>,
          ops |-> <<BulkOp(ds), BulkTimeOp>>]
    ELSE [fr |-> fr, docs |-> ds, ops |-> <<>>]

\* entry of get_tree_attr(path, depth): os.stat(path), then os.scandir(path)
Call(fs, stk, docs, path, depth) ==
    IF fs[path].st = "ok"
    THEN [stk |-> Append(stk, NewFrame(path, depth)), docs |-> docs,
          ops |-> <<>>, new |-> <<>>, ret |-> <<>>]
    ELSE Return(stk, Zero, docs, <<WarnOp>>, <<>>)

\* mutant: the UNICODE WARNING is logged but not counted
UnicodeNotCounted(raised) == FALSE

\* `except UnicodeError:` ... `warnings += 1`
UnicodeCounted(raised) == raised

\* mutant: the recursion stops one level early
DescendOneLess(q, md, depth) == md > 0 /\ depth + 1 < md /\ ~q

\* mutant: the recursion goes one level too deep
DescendOneMore(q, md, depth) == md > 0 /\ depth <= md /\ ~q

\* `maxdepth > 0 and depth < maxdepth and not quit`
Descend(q, md, depth) == md > 0 /\ depth < md /\ ~q

\* the partial totals get_tree_attr returns after the OSError handler
ErrorResult(fr) == Aggregate(fr)

\* one iteration of `for content in os.scandir(path)`
Iterate(fs, q, stk, docs, md) ==
    LET n == Len(stk)
        fr == stk[n]
        rest == SubSeq(stk, 1, n - 1)
        e == fs[fr.path].ents[fr.idx]
        nx == [fr EXCEPT !.idx = @ + 1]
    IN
    CASE is_symlink(e) -> Continue(rest, nx, docs, <<>>, <<>>)
      [] is_dir(e) ->
            LET f1 == [nx EXCEPT !.d_count = @ + 1, !.dirs = @ + 1] IN
            IF Descend(q, md, fr.depth)
            THEN Call(fs, Append(rest, f1), docs, e.d, fr.depth + 1)
            ELSE Continue(rest, f1, docs, <<>>, <<>>)
      [] e.k = "badfile" ->
            \* content.stat() raises OSError: the handler after the loop
            Return(rest, ErrorResult(fr), docs, <<WarnOp>>, <<>>)
      [] OTHER ->
            IF Indexable(e)
            THEN LET f1 == [nx EXCEPT !.f_count = @ + 1,
                                      !.size = @ + e.sz,
                                      !.size_du = @ + e.bl * blocksize,
                                      !.files = @ + 1]
                     strict == get_file_name(Name(e), FALSE)
                     file_name == IF strict.raised
                                  THEN get_file_name(Name(e), TRUE).text
                                  ELSE strict.text
                     warn == IF UnicodeCounted(strict.raised)
                             THEN <<WarnOp>> ELSE <<>>
                     doc == FileDoc(fr.path, e, file_name)
                     em == Emit(f1, docs, doc)
                 IN Continue(rest, em.fr, em.docs, warn \o em.ops, <<doc>>)
            ELSE Continue(rest, [nx EXCEPT !.f_count = @ + 1,
                                           !.file_skip_count = @ + 1],
                          docs, <<>>, <<>>)

\* `if files > 0 or dirs > 0`
Recorded(fr) == fr.files > 0 \/ fr.dirs > 0

\* the code after the loop: the directory's own record and the counters
Finish(stk, docs) ==
    LET n == Len(stk)
        fr == stk[n]
        rest == SubSeq(stk, 1, n - 1)
    IN
    IF Recorded(fr)
    THEN IF fr.depth > 0
         THEN LET em == Emit(fr, docs, DirDoc(fr)) IN
              Return(rest, Aggregate(fr), em.docs,
                     em.ops \o <<StatsOp(em.fr, 0)>>, <<DirDoc(fr)>>)
         ELSE Return(rest, Aggregate(fr), docs,
                     <<SetRootOp(DirDoc(fr)), StatsOp(fr, 0)>>, <<>>)
    ELSE Return(rest,
                Aggregate([fr EXCEPT !.dirs = IF @ > 0 THEN @ - 1 ELSE @]),
                docs, <<StatsOp(fr, 1)>>, <<>>)

get_tree_attr(fs, q, stk, docs, md) ==
    LET fr == stk[Len(stk)] IN
    IF fr.idx > Len(fs[fr.path].ents) THEN Finish(stk, docs)
    ELSE Iterate(fs, q, stk, docs, md)

\* ------------------------------------------------------------- crawl_thread
TaskDepth(t) == IF t = root THEN 0 ELSE 1
TaskMaxDepth(t) == IF t = root THEN 0 ELSE maxdepth

TopData(r) ==
    [size |-> r.size, size_du |-> r.size_du, dir_count |-> r.dirs,
     file_count |-> r.files]

\* `if size > 0` before the subtree is added to sizes[root]
MergeWanted(r) == r.size > 0

\* crawl_thread after get_tree_attr returned r with `docs` left in the batch
Finalize(t, docs, r) ==
    (IF Len(docs) > 0
     THEN <<BulkOp(docs), BulkTimeOp, TotalDocsOp(Len(docs))>> ELSE <<>>)
    \o (IF TaskDepth(t) > 0
        THEN <<SetTopOp(TopData(r))>>
             \o (IF MergeWanted(r) THEN <<MergeOp>> ELSE <<>>)
        ELSE <<>>)
    \o <<RemovePathOp>>

\* the task's local state after a step s, `pre` being operations before it
Local(t, pre, s) ==
    LET returned == s.ret # <<>> IN
    /\ stack' = [stack EXCEPT ![t] = s.stk]
    /\ documents' = [documents EXCEPT ![t] = IF returned THEN <<>> ELSE s.docs]
    /\ todo' = [todo EXCEPT ![t] =
                  pre \o s.ops
                      \o (IF returned THEN Finalize(t, s.docs, s.ret[1])
                          ELSE <<>>)]
    /\ appended' = [appended EXCEPT ![t] = @ \o s.new]
    /\ agg' = IF returned THEN [agg EXCEPT ![t] = s.ret] ELSE agg

\* the process has not exited
Alive == exit_code = <<>>

\* a pool worker takes the oldest queued task and enters crawl_thread
StartTask(t) ==
    /\ Alive
    /\ pc[t] = "queued"
    /\ Cardinality({u \in Tasks : pc[u] = "run"}) < maxthreads
    /\ \A i \in 1 .. Len(subdir_list) :
          pc[subdir_list[i]] = "queued" =>
              \A j \in 1 .. Len(subdir_list) : subdir_list[j] = t => j <= i
    /\ pc' = [pc EXCEPT ![t] = "run"]
    /\ Local(t, <<AppendPathOp>>, Call(tree, <<>>, <<>>, t, TaskDepth(t)))
    /\ UNCHANGED <<names, tree, maxdepth, elastic_chunksize, mpc, subdir_list, snap,
                   crawl_lock, shared, flushed, es, quit, emptyindex,
                   exit_code, contrib, baseline>>

\* one step of the directory walk of task t
Walk(t) ==
    /\ Alive
    /\ pc[t] = "run"
    /\ todo[t] = <<>>
    /\ stack[t] # <<>>
    /\ Local(t, <<>>, get_tree_attr(tree, quit, stack[t], documents[t],
                                    TaskMaxDepth(t)))
    /\ UNCHANGED <<names, tree, maxdepth, elastic_chunksize, mpc, subdir_list, pc,
                   snap, crawl_lock, shared, flushed, es, quit, emptyindex,
                   exit_code, contrib, baseline>>

\* ---------------------------------------------------------------- begin_bulk
\* elastic.bulk_upload accepted the batch
BulkOk(t) ==
    /\ Alive
    /\ pc[t] = "run"
    /\ todo[t] # <<>>
    /\ Head(todo[t]).op = "bulk"
    /\ flushed' = [flushed EXCEPT ![t] = Append(@, Head(todo[t]).docs)]
    /\ todo' = [todo EXCEPT ![t] = Tail(@)]
    /\ UNCHANGED <<names, tree, maxdepth, elastic_chunksize, mpc, subdir_list, pc,
                   stack, documents, snap, crawl_lock, shared, es, quit,
                   emptyindex, exit_code, appended, agg, contrib, baseline>>

\* elastic.bulk_upload raised BulkIndexError: exit_app_critical_error()
BulkFail(t) ==
    /\ Alive
    /\ pc[t] = "run"
    /\ todo[t] # <<>>
    /\ Head(todo[t]).op = "bulk"
    /\ exit_code' = <<EXIT_CRITICAL>>
    /\ mpc' = "aborted"
    /\ UNCHANGED <<names, tree, maxdepth, elastic_chunksize, subdir_list, pc, stack,
                   documents, todo, snap, crawl_lock, shared, flushed, es,
                   quit, emptyindex, appended, agg, contrib, baseline>>

\* ---------------------------------------------------------------- crawl_lock
Put(f, key, v) == [x \in DOMAIN f \cup {key} |-> IF x = key THEN v ELSE f[x]]

\* mutant: the block is entered without waiting for the lock
CanAcquireUnlocked(t) == TRUE

\* Lock.acquire: blocks while another thread holds the lock
CanAcquire(t) == crawl_lock = {}

\* mutant: the subtree's totals overwrite the root's instead of adding
MergeIntoAssign(r, top) ==
    [r EXCEPT !.size = top.size, !.size_du = top.size_du,
              !.dir_count = top.dir_count, !.file_count = top.file_count]

\* sizes[root] += sizes[top], field by field
MergeInto(r, top) ==
    [r EXCEPT !.size = @ + top.size, !.size_du = @ + top.size_du,
              !.dir_count = @ + top.dir_count,
              !.file_count = @ + top.file_count]

\* the body of a `with crawl_lock:` block of task t: `s` is what the block
\* read on entry, `cur` the globals it writes into
ApplyOp(t, o, cur, s) ==
    CASE o.op = "warn" -> [cur EXCEPT !.warnings = s.warnings + 1]
      [] o.op = "bulktime" -> [cur EXCEPT !.bulktime = s.bulktime + 1]
      [] o.op = "totaldocs" ->
            [cur EXCEPT !.total_documents = s.total_documents + o.n]
      [] o.op = "stats" ->
            [cur EXCEPT !.total_documents = s.total_documents + o.total_docs,
                        !.skipdircount = s.skipdircount + o.skipdir,
                        !.inodecount = s.inodecount + o.inode,
                        !.skipfilecount = s.skipfilecount + o.skipfile,
                        !.dircount = s.dircount + o.dir,
                        !.filecount = s.filecount + o.file]
      [] o.op = "setroot" -> [cur EXCEPT !.sizes = Put(@, root, o.data)]
      [] o.op = "settop" -> [cur EXCEPT !.sizes = Put(@, t, o.data)]
      [] o.op = "merge" ->
            [cur EXCEPT !.sizes =
                Put(@, root, MergeInto(s.sizes[root], s.sizes[t]))]
      [] o.op = "append" -> [cur EXCEPT !.scan_paths = @ \cup {t}]
      [] OTHER -> [cur EXCEPT !.scan_paths = @ \ {t}]

\* the increments an operation makes to the counters
Delta(o) ==
    CASE o.op = "warn" -> [NoCounters EXCEPT !.warnings = 1]
      [] o.op = "bulktime" -> [NoCounters EXCEPT !.bulktime = 1]
      [] o.op = "totaldocs" -> [NoCounters EXCEPT !.total_documents = o.n]
      [] o.op = "stats" ->
            [NoCounters EXCEPT !.total_documents = o.total_docs,
                               !.skipdircount = o.skipdir,
                               !.inodecount = o.inode,
                               !.skipfilecount = o.skipfile,
                               !.dircount = o.dir,
                               !.filecount = o.file]
      [] OTHER -> NoCounters

Plus(a, b) == [f \in DOMAIN a |-> a[f] + b[f]]

NoSnap == <<>>

\* `with crawl_lock:` entered
Acquire(t) ==
    /\ Alive
    /\ pc[t] = "run"
    /\ todo[t] # <<>>
    /\ Head(todo[t]).op # "bulk"
    /\ t \notin crawl_lock
    /\ CanAcquire(t)
    /\ crawl_lock' = crawl_lock \cup {t}
    /\ snap' = [snap EXCEPT ![t] = shared]
    /\ UNCHANGED <<names, tree, maxdepth, elastic_chunksize, mpc, subdir_list, pc,
                   stack, documents, todo, shared, flushed, es, quit,
                   emptyindex, exit_code, appended, agg, contrib, baseline>>

\* the block's body ran and the lock is released; a KeyError in the body
\* (sizes[root] missing) leaves the block and ends crawl_thread
Commit(t) ==
    /\ Alive
    /\ t \in crawl_lock
    /\ LET o == Head(todo[t])
           keyerror == o.op = "merge" /\ root \notin DOMAIN snap[t].sizes
       IN /\ shared' = IF keyerror THEN shared
                       ELSE ApplyOp(t, o, shared, snap[t])
          /\ contrib' = IF keyerror THEN contrib
                        ELSE [contrib EXCEPT ![t] = Plus(@, Delta(o))]
          /\ todo' = [todo EXCEPT ![t] = IF keyerror THEN <<>> ELSE Tail(@)]
          /\ pc' = [pc EXCEPT ![t] = IF keyerror THEN "raised"
                                     ELSE IF o.op = "remove" THEN "done" ELSE @]
          /\ baseline' = IF o.op = "setroot" THEN <<o.data>> ELSE baseline
    /\ crawl_lock' = crawl_lock \ {t}
    /\ snap' = [snap EXCEPT ![t] = NoSnap]
    /\ UNCHANGED <<names, tree, maxdepth, elastic_chunksize, mpc, subdir_list, stack,
                   documents, flushed, es, quit, emptyindex, exit_code, appended, agg>>

\* --------------------------------------------------------------------- scan
InitShared ==
    [warnings |-> 0, bulktime |-> 0, dircount |-> 0, filecount |-> 0,
     inodecount |-> 0, skipdircount |-> 0, skipfilecount |-> 0,
     total_documents |-> 0, sizes |-> <<>>, scan_paths |-> {}]

\* the counters as scan() sets them before crawl()
StartCounters == [NoCounters EXCEPT !.dircount = 1]

RECURSIVE SumLens(_)
SumLens(bs) == IF bs = <<>> THEN 0 ELSE Len(Head(bs)) + SumLens(Tail(bs))

\* mutant: the count misses the records sent in flushes
DocCountRootOnly == Len(es.rootdoc)

\* es.count of the file and directory documents of the index
DocCount ==
    SumLens(flushed[0]) + SumLens(flushed[1]) + SumLens(flushed[2])
        + Len(es.rootdoc)

\* scan(): entries of the root that are not symlinks
RootCount ==
    Len(SelectSeq(tree[root].ents, LAMBDA e : ~is_symlink(e)))

\* scan(): `count == 0`: nothing to crawl
ScanEmpty ==
    /\ mpc = "scan"
    /\ RootCount = 0
    /\ mpc' = "exited"
    /\ exit_code' = <<EXIT_OK>>
    /\ UNCHANGED <<names, tree, maxdepth, elastic_chunksize, subdir_list, pc, stack,
                   documents, todo, snap, crawl_lock, shared, flushed, es,
                   quit, emptyindex, appended, agg, contrib, baseline>>

\* scan(): the index name lacks the prefix scoutfs- (checked first), or the
\* index already exists (checked after the root was found non-empty)
ScanReject(why) ==
    /\ mpc = "scan"
    /\ why = "exists" => RootCount > 0
    /\ mpc' = "rejected"
    /\ exit_code' = <<EXIT_STARTUP>>
    /\ UNCHANGED <<names, tree, maxdepth, elastic_chunksize, subdir_list, pc, stack,
                   documents, todo, snap, crawl_lock, shared, flushed, es,
                   quit, emptyindex, appended, agg, contrib, baseline>>

\* scan(): create and tune the index, set the counters, index_start()
ScanStart ==
    /\ mpc = "scan"
    /\ RootCount > 0
    /\ es' = [es EXCEPT !.index = "created", !.settings = "tuned",
                        !.info = <<"spaceinfo", "indexinfo">>]
    /\ shared' = [shared EXCEPT !.dircount = 1, !.filecount = 0,
                                !.bulktime = 0, !.inodecount = 0,
                                !.skipdircount = 0, !.skipfilecount = 0,
                                !.total_documents = 0]
    /\ mpc' = "crawl"
    /\ UNCHANGED <<names, tree, maxdepth, elastic_chunksize, subdir_list, pc, stack,
                   documents, todo, snap, crawl_lock, flushed, quit,
                   emptyindex, exit_code, appended, agg, contrib, baseline>>

\* -------------------------------------------------------------------- crawl
RECURSIVE SubdirsOf(_)
SubdirsOf(ents) ==
    IF ents = <<>> THEN <<>>
    ELSE (IF ~is_symlink(Head(ents)) /\ is_dir(Head(ents))
          THEN <<Head(ents).d>> ELSE <<>>)
             \o SubdirsOf(Tail(ents))

Submitted == {subdir_list[i] : i \in 1 .. Len(subdir_list)}

\* crawl(): list the root's subdirectories, submit the depth-0 pass
Crawl ==
    /\ mpc = "crawl"
    /\ subdir_list' = SubdirsOf(tree[root].ents)
    /\ pc' = [pc EXCEPT ![root] = "queued"]
    /\ mpc' = "wait_root"
    /\ UNCHANGED <<names, tree, maxdepth, elastic_chunksize, stack, documents, todo,
                   snap, crawl_lock, shared, flushed, es, quit, emptyindex,
                   exit_code, appended, agg, contrib, baseline>>

\* mutant: crawl() does not wait for the result of the depth-0 pass
RootPassSubmitted == pc[root] # "new"

\* `data = future.result()` of the depth-0 pass has returned
RootPassReturned == pc[root] = "done"

\* crawl(): the depth-0 pass returned; one task per subdirectory is submitted
SubmitSubdirs ==
    /\ Alive
    /\ mpc = "wait_root"
    /\ RootPassReturned
    /\ pc' = [t \in Tasks |-> IF t \in Submitted THEN "queued" ELSE pc[t]]
    /\ mpc' = "wait_subdirs"
    /\ UNCHANGED <<names, tree, maxdepth, elastic_chunksize, subdir_list, stack,
                   documents, todo, snap, crawl_lock, shared, flushed, es,
                   quit, emptyindex, exit_code, appended, agg, contrib, baseline>>

\* crawl(): future.result() raised: exit_app_critical_error()
Fatal ==
    /\ Alive
    /\ mpc \in {"wait_root", "wait_subdirs"}
    /\ \E t \in Tasks : pc[t] = "raised"
    /\ exit_code' = <<EXIT_CRITICAL>>
    /\ mpc' = "aborted"
    /\ UNCHANGED <<names, tree, maxdepth, elastic_chunksize, subdir_list, pc, stack,
                   documents, todo, snap, crawl_lock, shared, flushed, es,
                   quit, emptyindex, appended, agg, contrib, baseline>>

Joined == mpc = "wait_subdirs" /\ \A t \in Submitted : pc[t] = "done"

\* crawl(): `not root in sizes`: the empty crawl
CompleteEmpty ==
    /\ Alive
    /\ Joined
    /\ root \notin DOMAIN shared.sizes
    /\ emptyindex' = TRUE
    /\ es' = [es EXCEPT !.index = IF DocCount = 0 THEN "deleted" ELSE @]
    /\ mpc' = "exit_app"
    /\ UNCHANGED <<names, tree, maxdepth, elastic_chunksize, subdir_list, pc, stack,
                   documents, todo, snap, crawl_lock, shared, flushed, quit,
                   exit_code, appended, agg, contrib, baseline>>

\* elastic.index_end: the summary record
EndRecord ==
    [type |-> "indexinfo", file_size |-> shared.sizes[root].size,
     file_size_du |-> shared.sizes[root].size_du,
     file_count |-> shared.filecount, dir_count |-> shared.dircount]

\* crawl(): the root record and the end record are written
CompleteNormal ==
    /\ Alive
    /\ Joined
    /\ root \in DOMAIN shared.sizes
    /\ es' = [es EXCEPT !.rootdoc = Append(@, shared.sizes[root]),
                        !.enddoc = Append(@, EndRecord)]
    /\ shared' = [shared EXCEPT !.total_documents = @ + 1]
    /\ mpc' = "exit_app"
    /\ UNCHANGED <<names, tree, maxdepth, elastic_chunksize, subdir_list, pc, stack,
                   documents, todo, snap, crawl_lock, flushed, quit,
                   emptyindex, exit_code, appended, agg, contrib, baseline>>

\* mutant: the exit status ignores the warning counter
ExitStatusAlwaysOk(w) == EXIT_OK

\* exit_app(): `if warnings > 0: sys.exit(78)`, else `sys.exit(0)`
ExitStatus(w) == IF w > 0 THEN EXIT_WARNINGS ELSE EXIT_OK

\* exit_app(): revert the index settings, exit 78 with warnings, else 0
ExitApp ==
    /\ Alive
    /\ mpc = "exit_app"
    /\ ~quit
    /\ quit' = TRUE
    /\ es' = [es EXCEPT !.settings = IF emptyindex THEN @ ELSE "default"]
    /\ exit_code' = <<ExitStatus(shared.warnings)>>
    /\ mpc' = "exited"
    /\ UNCHANGED <<names, tree, maxdepth, elastic_chunksize, subdir_list, pc, stack,
                   documents, todo, snap, crawl_lock, shared, flushed,
                   emptyindex, appended, agg, contrib, baseline>>

\* -------------------------------------------------------- sequential crawl
\* The crawl run by one thread at a time, task after task in submission
\* order: what the pool computes when no two tasks overlap.

\* get_tree_attr run from the step result s until the outermost call returns
RECURSIVE RunWalk(_, _, _, _)
RunWalk(fs, md, s, ops) ==
    IF s.ret # <<>>
    THEN [ret |-> s.ret[1], docs |-> s.docs, ops |-> ops \o s.ops]
    ELSE RunWalk(fs, md, get_tree_attr(fs, FALSE, s.stk, s.docs, md),
                 ops \o s.ops)

\* the operations of crawl_thread for task t applied in program order
RECURSIVE RunOps(_, _, _)
RunOps(t, ops, st) ==
    IF ops = <<>> \/ st.raised THEN st
    ELSE LET o == Head(ops) IN
         RunOps(t, Tail(ops),
                CASE o.op = "bulk" ->
                        [st EXCEPT !.flushed[t] = Append(@, o.docs)]
                  [] o.op = "merge" /\ root \notin DOMAIN st.shared.sizes ->
                        [st EXCEPT !.raised = TRUE]
                  [] OTHER ->
                        [st EXCEPT !.shared = ApplyOp(t, o, @, @)])

\* crawl_thread(top = t) as a whole
RunTask(fs, md, t, st) ==
    \* the set binds the walk's result once
    CHOOSE r \in {RunOps(t, w.ops \o Finalize(t, w.docs, w.ret),
                         [st EXCEPT !.agg[t] = <<w.ret>>])
                  : w \in {RunWalk(fs, IF t = root THEN 0 ELSE md,
                                   Call(fs, <<>>, <<>>, t, TaskDepth(t)),
                                   <<AppendPathOp>>)}} : TRUE

RECURSIVE RunTasks(_, _, _, _)
RunTasks(fs, md, ts, st) ==
    IF ts = <<>> \/ st.raised THEN st
    ELSE RunTasks(fs, md, Tail(ts), RunTask(fs, md, Head(ts), st))

\* crawl() up to the join of the pool, on the filesystem fs
RunCrawl(fs, md) ==
    RunTasks(fs, md, <<root>> \o SubdirsOf(fs[root].ents),
             [shared |-> [f \in DOMAIN InitShared |->
                             IF f \in DOMAIN NoCounters THEN StartCounters[f]
                             ELSE InitShared[f]],
              flushed |-> [t \in Tasks |-> <<>>],
              agg |-> [t \in Tasks |-> <<>>],
              raised |-> FALSE])

\* KeyboardInterrupt is raised in the main thread while it is in crawl():
\* the exception leaves the `with ThreadPoolExecutor` block, whose exit waits
\* for the submitted tasks, and reaches `except KeyboardInterrupt` of scan()
Interrupt ==
    /\ Alive
    /\ mpc \in {"crawl", "wait_root", "wait_subdirs"}
    /\ mpc' = "interrupted"
    /\ UNCHANGED <<names, tree, maxdepth, elastic_chunksize, subdir_list, pc, stack,
                   documents, todo, snap, crawl_lock, shared, flushed, es,
                   quit, emptyindex, exit_code, appended, agg, contrib,
                   baseline>>

\* the pool has shut down: no submitted task is waiting or running
PoolShutDown == \A t \in Tasks : pc[t] \notin {"queued", "run"}

\* scan(): `except KeyboardInterrupt: exit_app(es, index)`
ExitInterrupted ==
    /\ Alive
    /\ mpc = "interrupted"
    /\ PoolShutDown
    /\ ~quit
    /\ quit' = TRUE
    /\ es' = [es EXCEPT !.settings = IF emptyindex THEN @ ELSE "default"]
    /\ exit_code' = <<ExitStatus(shared.warnings)>>
    /\ mpc' = "cancelled"
    /\ UNCHANGED <<names, tree, maxdepth, elastic_chunksize, subdir_list, pc, stack,
                   documents, todo, snap, crawl_lock, shared, flushed,
                   emptyindex, appended, agg, contrib, baseline>>

\* ------------------------------------------------- owner and group names
\* get_owner_name / get_group_name and the two locks, as the pool's threads
\* use them: a thread is at one site at a time, a blocking call, a name
\* resolution or a `with crawl_lock:` block.
MaxId == 1
Ids == 1 .. MaxId
Kinds == {"uid", "gid"}
Workers == 1 .. maxthreads

\* the blocking calls of a pool thread outside the name resolution
Calls == {"os.stat", "os.scandir", "content.stat", "bulk_upload"}

\* pwd.getpwuid(uid).pw_name / grp.getgrgid(gid).gr_name
pw_name(id) == [id |-> id, named |-> TRUE]

\* the numeric id itself
Numeric(id) == [id |-> id, named |-> FALSE]

\* `except Exception: owner = uid`
OnLookupError(id) == [raised |-> FALSE, owner |-> Numeric(id)]

\* a thread between two sites
Running ==
    [at |-> "run", kind |-> "none", id |-> 0, owner |-> <<>>,
     present |-> FALSE, looked |-> FALSE, found |-> FALSE]

Cache(kind) == IF kind = "uid" THEN uid_name ELSE gid_name

\* mutant: the cache is never found to hold the id
CacheHitNever(c, id) == FALSE

\* `if uid in uid_name`
CacheHit(c, id) == id \in DOMAIN c

\* mutant: the cache is stored under both locks
StoreLocksBoth == {"fileperm_lock", "crawl_lock"}

\* `with fileperm_lock:` around the store into the cache
StoreLocks == {"fileperm_lock"}

\* the locks ls can all be taken
Free(ls) ==
    /\ "fileperm_lock" \in ls => fileperm_lock = {}
    /\ "crawl_lock" \in ls => crawl_lock = {}

\* the crawl's variables other than crawl_lock
crawlvars ==
    <<tree, maxdepth, elastic_chunksize, mpc, subdir_list, pc, stack,
      documents, todo, snap, shared, flushed, es, quit, emptyindex,
      exit_code, appended, agg, contrib, baseline>>

\* os.stat, os.scandir, content.stat or elastic.bulk_upload is entered
CallEnter(w, c) ==
    /\ thread[w].at = "run"
    /\ thread' = [thread EXCEPT ![w] = [Running EXCEPT !.at = "call", !.kind = c]]
    /\ UNCHANGED <<crawlvars, crawl_lock, uid_name, gid_name, fileperm_lock,
                   resolved>>

CallReturn(w) ==
    /\ thread[w].at = "call"
    /\ thread' = [thread EXCEPT ![w] = Running]
    /\ UNCHANGED <<crawlvars, crawl_lock, uid_name, gid_name, fileperm_lock,
                   resolved>>

\* get_owner_name(uid) / get_group_name(gid): `owner = None`, the cache test
NameTest(w, kind, id) ==
    /\ thread[w].at = "run"
    /\ thread' = [thread EXCEPT ![w] =
                    [Running EXCEPT
                        !.at = IF CacheHit(Cache(kind), id) THEN "hit" ELSE "miss",
                        !.kind = kind, !.id = id,
                        !.present = id \in DOMAIN Cache(kind)]]
    /\ UNCHANGED <<crawlvars, crawl_lock, uid_name, gid_name, fileperm_lock,
                   resolved>>

\* the outcome of a resolution as the caller sees it
Outcome(th, value) ==
    [kind |-> th.kind, id |-> th.id, value |-> value, present |-> th.present,
     looked |-> th.looked, found |-> th.found]

\* `owner = uid_name[uid]`; it is not None, so `return owner`
NameGet(w) ==
    /\ thread[w].at = "hit"
    /\ resolved' = [resolved EXCEPT ![w] =
                      <<Outcome(thread[w], Cache(thread[w].kind)[thread[w].id])>>]
    /\ thread' = [thread EXCEPT ![w] = Running]
    /\ UNCHANGED <<crawlvars, crawl_lock, uid_name, gid_name, fileperm_lock>>

\* `if owner is None:` the identity lookup, which finds the id or raises
NameLookup(w, found) ==
    /\ thread[w].at = "miss"
    /\ LET id == thread[w].id
           r == IF found THEN [raised |-> FALSE, owner |-> pw_name(id)]
                ELSE OnLookupError(id)
       IN thread' = [thread EXCEPT ![w] =
                       [@ EXCEPT !.at = IF r.raised THEN "raised" ELSE "resolved",
                                 !.owner = <<r.owner>>, !.looked = TRUE,
                                 !.found = found]]
    /\ UNCHANGED <<crawlvars, crawl_lock, uid_name, gid_name, fileperm_lock,
                   resolved>>

\* `with fileperm_lock:` is entered
NameLock(w) ==
    /\ thread[w].at = "resolved"
    /\ Free(StoreLocks)
    /\ fileperm_lock' =
          IF "fileperm_lock" \in StoreLocks THEN fileperm_lock \cup {w}
          ELSE fileperm_lock
    /\ crawl_lock' =
          IF "crawl_lock" \in StoreLocks THEN crawl_lock \cup {w}
          ELSE crawl_lock
    /\ thread' = [thread EXCEPT ![w] = [@ EXCEPT !.at = "store"]]
    /\ UNCHANGED <<crawlvars, uid_name, gid_name, resolved>>

\* `uid_name[uid] = owner`, the lock is released, `return owner`
NameStore(w) ==
    /\ thread[w].at = "store"
    /\ LET th == thread[w] IN
       /\ uid_name' = IF th.kind = "uid" THEN Put(uid_name, th.id, th.owner[1])
                      ELSE uid_name
       /\ gid_name' = IF th.kind = "gid" THEN Put(gid_name, th.id, th.owner[1])
                      ELSE gid_name
       /\ resolved' = [resolved EXCEPT ![w] = <<Outcome(th, th.owner[1])>>]
    /\ fileperm_lock' = fileperm_lock \ {w}
    /\ crawl_lock' = crawl_lock \ {w}
    /\ thread' = [thread EXCEPT ![w] = Running]
    /\ UNCHANGED crawlvars

\* the thread arrives at a `with crawl_lock:`
LockWait(w) ==
    /\ thread[w].at = "run"
    /\ thread' = [thread EXCEPT ![w] = [Running EXCEPT !.at = "wait"]]
    /\ UNCHANGED <<crawlvars, crawl_lock, uid_name, gid_name, fileperm_lock,
                   resolved>>

LockEnter(w) ==
    /\ thread[w].at = "wait"
    /\ CanAcquire(w)
    /\ crawl_lock' = crawl_lock \cup {w}
    /\ thread' = [thread EXCEPT ![w] = [@ EXCEPT !.at = "locked"]]
    /\ UNCHANGED <<crawlvars, uid_name, gid_name, fileperm_lock, resolved>>

\* the counters or dictionaries were updated: the block is left
LockLeave(w) ==
    /\ thread[w].at = "locked"
    /\ crawl_lock' = crawl_lock \ {w}
    /\ thread' = [thread EXCEPT ![w] = Running]
    /\ UNCHANGED <<crawlvars, uid_name, gid_name, fileperm_lock, resolved>>

InitNames ==
    /\ uid_name = <<>>
    /\ gid_name = <<>>
    /\ fileperm_lock = {}
    /\ thread = [w \in Workers |-> Running]
    /\ resolved = [w \in Workers |-> <<>>]

\* ------------------------------------------------------------ specification
Init ==
    /\ tree \in Trees
    /\ maxdepth \in 0 .. MaxDepthArg
    /\ elastic_chunksize \in 1 .. MaxChunk
    /\ mpc = "scan"
    /\ subdir_list = <<>>
    /\ pc = [t \in Tasks |-> "new"]
    /\ stack = [t \in Tasks |-> <<>>]
    /\ documents = [t \in Tasks |-> <<>>]
    /\ todo = [t \in Tasks |-> <<>>]
    /\ snap = [t \in Tasks |-> NoSnap]
    /\ crawl_lock = {}
    /\ shared = InitShared
    /\ flushed = [t \in Tasks |-> <<>>]
    /\ es = [index |-> "none", settings |-> "none", info |-> <<>>,
             rootdoc |-> <<>>, enddoc |-> <<>>]
    /\ quit = FALSE
    /\ emptyindex = FALSE
    /\ exit_code = <<>>
    /\ appended = [t \in Tasks |-> <<>>]
    /\ agg = [t \in Tasks |-> <<>>]
    /\ contrib = [t \in Tasks |-> NoCounters]
    /\ baseline = <<>>
    /\ InitNames

Next ==
    \/ ScanEmpty
    \/ \E why \in {"noprefix", "exists"} : ScanReject(why)
    \/ ScanStart
    \/ Crawl
    \/ SubmitSubdirs
    \/ Fatal
    \/ CompleteEmpty
    \/ CompleteNormal
    \/ ExitApp
    \/ Interrupt
    \/ ExitInterrupted
    \/ \E t \in Tasks : StartTask(t)
    \/ \E t \in Tasks : Walk(t)
    \/ \E t \in Tasks : BulkOk(t)
    \/ \E t \in Tasks : BulkFail(t)
    \/ \E t \in Tasks : Acquire(t)
    \/ \E t \in Tasks : Commit(t)

Spec == Init /\ [][Next]_vars

\* The pool's threads at the locks, taken on their own: every order in which
\* two threads go through blocking calls, name resolutions and crawl_lock
\* blocks, over a crawl whose other variables stay as they are.
InitLocks ==
    /\ tree = [d \in Dirs |-> IF d = root THEN Node("ok", <<>>) ELSE Absent]
    /\ maxdepth = 0
    /\ elastic_chunksize = 1
    /\ Init

NextLocks ==
    \/ \E w \in Workers, c \in Calls : CallEnter(w, c)
    \/ \E w \in Workers : CallReturn(w)
    \/ \E w \in Workers, kind \in Kinds, id \in Ids : NameTest(w, kind, id)
    \/ \E w \in Workers : NameGet(w)
    \/ \E w \in Workers, found \in BOOLEAN : NameLookup(w, found)
    \/ \E w \in Workers : NameLock(w)
    \/ \E w \in Workers : NameStore(w)
    \/ \E w \in Workers : LockWait(w)
    \/ \E w \in Workers : LockEnter(w)
    \/ \E w \in Workers : LockLeave(w)

SpecLocks == InitLocks /\ [][NextLocks]_vars

\* ------------------------------------------------------------------- claims
RECURSIVE SeqSum(_)
SeqSum(q) == IF q = <<>> THEN 0 ELSE Head(q) + SeqSum(Tail(q))

\* the pool has drained and no task or flush ended the process
Drained == Joined \/ (mpc \in {"exit_app", "exited"} /\ pc[root] = "done")

\* field f of the aggregates the first-level tasks returned, summed
SubtreeSum(f) ==
    SeqSum([i \in 1 .. Len(subdir_list) |-> agg[subdir_list[i]][1][f]])

\* C1: once every first-level task has joined, size, size_du and file_count
\* of sizes[root] are what the depth-0 pass stored plus the sum of what the
\* first-level tasks returned, whatever the interleaving.
C1_RootRollupIsBaselinePlusSubtrees ==
    (Drained /\ root \in DOMAIN shared.sizes) =>
        /\ shared.sizes[root].size
             = baseline[1].size + SubtreeSum("size")
        /\ shared.sizes[root].size_du
             = baseline[1].size_du + SubtreeSum("size_du")
        /\ shared.sizes[root].file_count
             = baseline[1].file_count + SubtreeSum("files")

C1_Witness ==
    /\ Drained
    /\ root \in DOMAIN shared.sizes
    /\ Len(subdir_list) = 2
    /\ baseline[1].size > 0
    /\ agg[1][1].size > 0
    /\ agg[2][1].size > 0
    /\ agg[2][1].size_du # agg[2][1].size

\* C2: once the tasks have joined, every counter guarded by crawl_lock, and
\* the warning counter, is its value at the start of the crawl plus the sum
\* over the tasks of the increments each task made: no increment is lost.
C2_CountersAreSumOfContributions ==
    Joined =>
        \A f \in DOMAIN NoCounters :
            shared[f] = StartCounters[f]
                          + contrib[0][f] + contrib[1][f] + contrib[2][f]

C2_Witness ==
    /\ Joined
    /\ contrib[1].warnings > 0
    /\ contrib[1].bulktime > 0
    /\ contrib[2].bulktime > 0
    /\ contrib[0].inodecount > 0
    /\ contrib[1].skipdircount > 0
    /\ contrib[2].filecount > 0

\* the sizes of the regular, non-symlink files below directory d, summed
\* over the filesystem itself
RECURSIVE SizeUnder(_, _)
SizeUnder(fs, d) ==
    SeqSum([i \in 1 .. Len(fs[d].ents) |->
              LET e == fs[d].ents[i] IN
              CASE e.k = "file" -> e.sz
                [] e.k = "dir" -> SizeUnder(fs, e.d)
                [] OTHER -> 0])

Max(a, b) == IF a >= b THEN a ELSE b

RECURSIVE SeqMax(_)
SeqMax(q) == IF q = <<>> THEN 0 ELSE Max(Head(q), SeqMax(Tail(q)))

\* the depth of the deepest directory below d, d itself being at depth 0
RECURSIVE DepthUnder(_, _)
DepthUnder(fs, d) ==
    SeqMax([i \in 1 .. Len(fs[d].ents) |->
              LET e == fs[d].ents[i] IN
              IF e.k = "dir" THEN 1 + DepthUnder(fs, e.d) ELSE 0])

\* no path of the filesystem raises OSError
NoErrors(fs) ==
    \A d \in Dirs :
        /\ fs[d].st \in {"ok", "absent"}
        /\ \A i \in 1 .. Len(fs[d].ents) : fs[d].ents[i].k # "badfile"

\* C3: for a tree no deeper than maxdepth and free of filesystem errors, the
\* size of the root record at completion (and the total of the end record)
\* is the sum of the sizes of all regular, non-symlink files of non-zero
\* size below the root, summed over the tree itself.
C3_TotalSizeIsSumOfFileSizes ==
    (Drained /\ NoErrors(tree) /\ DepthUnder(tree, root) <= maxdepth) =>
        /\ root \notin DOMAIN shared.sizes => SizeUnder(tree, root) = 0
        /\ root \in DOMAIN shared.sizes =>
              shared.sizes[root].size = SizeUnder(tree, root)
        /\ es.rootdoc # <<>> =>
              /\ es.rootdoc[1].size = SizeUnder(tree, root)
              /\ es.enddoc[1].file_size = SizeUnder(tree, root)

C3_Witness ==
    /\ es.rootdoc # <<>>
    /\ NoErrors(tree)
    /\ DepthUnder(tree, root) = 2
    /\ DepthUnder(tree, root) <= maxdepth
    /\ SizeUnder(tree, 3) > 0
    /\ SizeUnder(tree, 2) > 0
    /\ SizeUnder(tree, root) > SizeUnder(tree, 1) + SizeUnder(tree, 2)
    /\ SizeUnder(tree, 1) > SizeUnder(tree, 3)

\* the batches of a task, concatenated in the order they were flushed
RECURSIVE Flat(_)
Flat(bs) == IF bs = <<>> THEN <<>> ELSE Head(bs) \o Flat(Tail(bs))

\* the records of the batches handed to begin_bulk and not yet accepted
RECURSIVE PendingDocs(_)
PendingDocs(ops) ==
    IF ops = <<>> THEN <<>>
    ELSE (IF Head(ops).op = "bulk" THEN Head(ops).docs ELSE <<>>)
             \o PendingDocs(Tail(ops))

AllAppended == appended[0] \o appended[1] \o appended[2]
AllFlushed == Flat(flushed[0]) \o Flat(flushed[1]) \o Flat(flushed[2])

NoDup(q) == \A i, j \in 1 .. Len(q) : q[i].ino = q[j].ino => i = j

\* the entries of a listing the loop gets to: those before the first entry
\* whose stat fails
Enumerated(ents) ==
    {i \in 1 .. Len(ents) : \A j \in 1 .. i : ents[j].k # "badfile"}

\* the non-zero-size regular files a walk of d at `depth` gets to, read off
\* the filesystem itself
RECURSIVE FilesUnder(_, _, _, _)
FilesUnder(fs, md, d, depth) ==
    IF fs[d].st # "ok" THEN {}
    ELSE UNION {LET e == fs[d].ents[i] IN
                CASE e.k = "file" /\ e.sz > 0 -> {<<d, i>>}
                  [] e.k = "dir" /\ md > 0 /\ depth < md ->
                        FilesUnder(fs, md, e.d, depth + 1)
                  [] OTHER -> {}
                : i \in Enumerated(fs[d].ents)}

ExpectedFiles ==
    FilesUnder(tree, 0, root, 0)
        \cup UNION {FilesUnder(tree, maxdepth, t, 1) : t \in Submitted}

FileInos(ds) == {ds[i].ino : i \in {j \in 1 .. Len(ds) : ds[j].type = "file"}}

CeilDiv(n, c) == (n + c - 1) \div c

\* C5 as stated: over the whole crawl, the number of flushes is
\* ceil(N / C) for the N records emitted by all the tasks together.
C5_FlushesOverCrawl ==
    Drained =>
        Len(flushed[0]) + Len(flushed[1]) + Len(flushed[2])
            = CeilDiv(Len(AllAppended), elastic_chunksize)

\* C5, amended: each task has a batch of its own, so a task that emitted N
\* records has made ceil(N / C) flushes when it is done, every flush but the
\* last of C records; over the crawl the flushes are the sum over the tasks.
C5_FlushesPerTask ==
    \A t \in Tasks :
        pc[t] = "done" =>
            /\ Len(flushed[t])
                 = CeilDiv(Len(appended[t]), elastic_chunksize)
            /\ \A i \in 1 .. Len(flushed[t]) - 1 :
                  Len(flushed[t][i]) = elastic_chunksize

C5_Witness ==
    /\ Drained
    /\ elastic_chunksize = 2
    /\ \E t \in Submitted : Len(appended[t]) = 3 /\ Len(flushed[t]) = 2
    /\ Len(appended[root]) = 1
    /\ Len(flushed[root]) = 1


\* os.stat or os.scandir of d, or the stat of one of its entries, raises
FailsAt(fs, d) ==
    \/ fs[d].st \in {"staterr", "listerr"}
    \/ \E i \in 1 .. Len(fs[d].ents) : fs[d].ents[i].k = "badfile"

\* C6 as stated: when an OS error occurs at a directory, at its initial
\* stat or midway through its listing, get_tree_attr returns the zero
\* aggregate (0, 0, 0, 0) for that directory to its caller.
C6_ErrorYieldsZeroAggregate ==
    \A t \in Tasks :
        (agg[t] # <<>> /\ FailsAt(tree, t)) => agg[t][1] = Zero

\* C7 as stated: a path-scoped OS error never makes a task raise: every
\* first-level task completes its merge into the shared state.
C7_PathErrorNeverFatal ==
    \A t \in Tasks : pc[t] # "raised"

\* the filesystem without its zero-byte regular files
WithoutEmptyFiles(fs) ==
    [d \in DOMAIN fs |->
        [fs[d] EXCEPT !.ents =
            SelectSeq(@, LAMBDA e : ~(e.k = "file" /\ e.sz = 0))]]

\* the filesystem without its symbolic links
WithoutSymlinks(fs) ==
    [d \in DOMAIN fs |->
        [fs[d] EXCEPT !.ents = SelectSeq(@, LAMBDA e : e.k # "symlink")]]

\* the aggregates, the flushed records and sizes are those of the crawl `ref`
SameRecords(ref) ==
    /\ ~ref.raised
    /\ agg = ref.agg
    /\ flushed = ref.flushed
    /\ shared.sizes = ref.shared.sizes

RECURSIVE Skippable(_, _, _, _)
Skippable(fs, md, d, depth) ==
    /\ fs[d].st = "ok"
    /\ \A i \in 1 .. Len(fs[d].ents) :
          LET e == fs[d].ents[i] IN
          CASE e.k = "symlink" -> TRUE
            [] e.k = "file" -> e.sz = 0
            [] e.k = "dir" ->
                  md > 0 /\ depth < md /\ Skippable(fs, md, e.d, depth + 1)
            [] OTHER -> FALSE

\* the depth at which the walk reaches directory d
DepthOf(fs, d) == IF d = root THEN 0 ELSE IF HasSub(fs[root], d) THEN 1 ELSE 2

\* C9 as stated: a non-root directory that contributes no emitted file and
\* no non-skipped subdirectory has no DirectoryRecord; so a directory whose
\* only child is a skipped directory has none either.
C9_SkippedDirectoryNotRecorded ==
    \A d \in Dirs \ {root} :
        (tree[d].st = "ok" /\ Skippable(tree, maxdepth, d, DepthOf(tree, d)))
            => \A i \in 1 .. Len(AllAppended) : AllAppended[i].ino # <<d, 0>>

\* the directories whose listing holds symbolic links and nothing else
OnlySymlinks(fs) ==
    {d \in Dirs : /\ fs[d].st = "ok"
                  /\ fs[d].ents # <<>>
                  /\ \A i \in 1 .. Len(fs[d].ents) : fs[d].ents[i].k = "symlink"}

\* C10: after the crawl every aggregate, record and shared counter is what
\* it would be with the symbolic links absent from the tree, and a directory
\* holding only symbolic links has no record of itself or of a child.
C10_SymlinksAddNothing ==
    /\ Joined =>
          \A ref \in {RunCrawl(WithoutSymlinks(tree), maxdepth)} :
              /\ SameRecords(ref)
              /\ \A f \in DOMAIN NoCounters : shared[f] = ref.shared[f]
    /\ \A i \in 1 .. Len(AllAppended) :
          AllAppended[i].ino[1] \notin OnlySymlinks(tree)
    /\ root \in OnlySymlinks(tree) => root \notin DOMAIN shared.sizes

C10_Witness ==
    /\ Joined
    /\ 1 \in OnlySymlinks(tree)
    /\ agg[1] = <<Zero>>
    /\ tree[root].ents[1].k = "symlink"
    /\ root \in DOMAIN shared.sizes
    /\ shared.sizes[root].file_count = 1
    /\ shared.inodecount = 2


\* the records among ds built from a lossy decoding of the name
Lossy(ds) == {i \in 1 .. Len(ds) : ds[i].name.enc = "replaced"}

\* the non-zero-size files of fs whose names hold invalid byte sequences
InvalidNamed(fs) ==
    {ino \in Dirs \X (1 .. 3) :
        /\ ino[2] <= Len(fs[ino[1]].ents)
        /\ fs[ino[1]].ents[ino[2]].k = "file"
        /\ fs[ino[1]].ents[ino[2]].sz > 0
        /\ fs[ino[1]].ents[ino[2]].enc = "invalid"}

\* C11: a non-zero-size file whose name holds invalid byte sequences has,
\* after the crawl, exactly one record, whose name is the lossy decoding;
\* every other file the walk got to has its one record too; the task that
\* met the name counted exactly one warning for it (in a tree without OS
\* errors the warnings of a finished task are its lossy names); and the
\* name makes no task raise.
C11_InvalidNameYieldsOneRecordOneWarning ==
    /\ \A i \in 1 .. Len(AllAppended) :
          /\ AllAppended[i].name.enc # "invalid"
          /\ AllAppended[i].name.enc = "replaced"
                <=> AllAppended[i].ino \in InvalidNamed(tree)
    /\ Drained =>
          \A ino \in ExpectedFiles :
              Cardinality({i \in 1 .. Len(AllFlushed) :
                              AllFlushed[i].ino = ino}) = 1
    /\ NoErrors(tree) =>
          \A t \in Tasks :
              /\ pc[t] # "raised"
              /\ pc[t] = "done" =>
                    contrib[t].warnings = Cardinality(Lossy(appended[t]))

C11_Witness ==
    /\ Drained
    /\ NoErrors(tree)
    /\ InvalidNamed(tree) = {<<2, 1>>}
    /\ <<2, 1>> \in ExpectedFiles
    /\ <<2, 2>> \in ExpectedFiles
    /\ contrib[2].warnings = 1
    /\ shared.warnings = 1
    /\ Len(appended[2]) = 3

\* the main thread went through the Completion Controller
Completed == mpc \in {"exit_app", "exited"} /\ pc[root] = "done"

\* beneath the root there is no regular file of non-zero size, and no error
NothingIndexable(fs) == NoErrors(fs) /\ SizeUnder(fs, root) = 0

\* C12 as stated: if beneath the root there is no non-zero-size regular
\* file, no file or directory document is produced, no RootRollup is
\* written, the run takes the empty-crawl outcome and the index is deleted.
C12_NothingIndexableIsEmptyCrawl ==
    (Completed /\ NothingIndexable(tree)) =>
        /\ AllFlushed = <<>>
        /\ es.rootdoc = <<>>
        /\ emptyindex
        /\ es.index = "deleted"


\* a crawl that was started (the index was created) has ended through
\* exit_app, after the Completion Controller or after an interrupt
Ended == mpc \in {"exited", "cancelled"} /\ es.index # "none"

\* C13: when a started crawl ends without a fatal abort, the exit status is
\* 78 if the warning counter is at least 1 and 0 if it is 0; a run in which
\* a task counted a warning never exits 0.
C13_ExitStatusFollowsWarnings ==
    Ended =>
        /\ shared.warnings >= 1 => exit_code = <<EXIT_WARNINGS>>
        /\ shared.warnings = 0 => exit_code = <<EXIT_OK>>
        /\ (\E t \in Tasks : contrib[t].warnings > 0)
              => exit_code # <<EXIT_OK>>

C13_Witness ==
    /\ mpc = "exited"
    /\ es.rootdoc # <<>>
    /\ contrib[1].warnings = 1
    /\ shared.warnings = 1
    /\ exit_code = <<EXIT_WARNINGS>>

\* C14 as stated: the exit status of the critical abort is non-zero and
\* differs from 0, from 78 and from the status of a startup failure.
C14_CriticalStatusIsDistinct ==
    mpc = "aborted" =>
        /\ exit_code # <<>>
        /\ exit_code[1] \notin {EXIT_OK, EXIT_WARNINGS, EXIT_STARTUP}

\* C15 as stated: once a flush failed or a task raised an error, the process
\* ends with the critical status only, and the RootRollup document, the end
\* summary record and the revert of the index settings never happen.
C15_TaskErrorOrFailedFlushIsFatal ==
    (mpc = "aborted" \/ \E t \in Tasks : pc[t] = "raised") =>
        /\ exit_code \in {<<>>, <<EXIT_CRITICAL>>}
        /\ es.rootdoc = <<>>
        /\ es.enddoc = <<>>
        /\ es.settings # "default"

\* C16 as stated: a run that was interrupted while crawling still goes
\* through the Completion Controller: when it has exited and a RootRollup
\* entry exists, the RootRollup document and the end summary record have
\* been written.
C16_InterruptedRunCompletes ==
    (mpc = "cancelled" /\ root \in DOMAIN shared.sizes) =>
        /\ Len(es.rootdoc) = 1
        /\ Len(es.enddoc) = 1

\* C17 as stated: at normal completion total_documents is the number of
\* records sent in flushes plus one for the RootRollup document, also when
\* path-scoped errors occurred.
C17_TotalDocumentsCountsEveryRecord ==
    (Completed /\ es.rootdoc # <<>>) =>
        shared.total_documents = Len(AllFlushed) + 1


\* the deepest level the walk enumerates: maxdepth, and in any case the
\* first level, whose directories crawl() submits whatever maxdepth is
EnumDepth == Max(maxdepth, 1)

\* the depths of the directories being enumerated or having a record
WalkedDepths ==
    UNION {{stack[t][i].depth : i \in 1 .. Len(stack[t])} : t \in Tasks}
        \cup {DepthOf(tree, AllAppended[i].ino[1]) : i \in 1 .. Len(AllAppended)}

\* C18 as stated: for every maxdepth >= 0 a directory is enumerated, and has
\* records, only if its depth below the root is at most maxdepth.
C18_EnumeratedWithinMaxdepth ==
    \A n \in WalkedDepths : n <= maxdepth

\* C18, amended: a directory is enumerated, and has records, only if its
\* depth is at most maxdepth or it is a first-level subdirectory (these are
\* enumerated for every maxdepth, 0 included); a directory beyond that is
\* only counted as one directory entry of its parent; and no call of the
\* aggregator starts while the cancellation flag is set.
C18_EnumeratedWithinMaxdepthOrFirstLevel ==
    /\ [](\A n \in WalkedDepths : n <= EnumDepth)
    /\ []((Drained /\ maxdepth < 2 /\ tree[3].st # "absent") =>
            \A i \in 1 .. Len(AllAppended) :
                /\ AllAppended[i].ino[1] # 3
                /\ AllAppended[i].ino = <<1, 0>> =>
                      /\ AllAppended[i].dir_count = 2
                      /\ AllAppended[i].file_count
                           = Cardinality(FilesUnder(tree, 0, 1, 1)))
    /\ [][quit => stack' = stack]_vars

C18_Witness ==
    /\ Drained
    /\ maxdepth = 1
    /\ tree[3].st = "ok"
    /\ tree[3].ents # <<>>
    /\ tree[3].ents[1].sz > 0
    /\ \E i \in 1 .. Len(AllAppended) :
          /\ AllAppended[i].ino = <<1, 0>>
          /\ AllAppended[i].file_count = 1

C20_ExactlyOneCompletionOutcome ==
    /\ Len(es.rootdoc) <= 1
    /\ Len(es.enddoc) = Len(es.rootdoc)
    /\ emptyindex => es.rootdoc = <<>>
    /\ es.index = "deleted" => emptyindex
    /\ (emptyindex \/ es.rootdoc # <<>>) => Completed
    /\ Completed =>
          /\ emptyindex <=> root \notin DOMAIN shared.sizes
          /\ emptyindex => (es.index = "deleted" <=> AllFlushed = <<>>)
          /\ ~emptyindex =>
                /\ es.rootdoc = <<shared.sizes[root]>>
                /\ es.enddoc[1].file_size = shared.sizes[root].size
                /\ es.enddoc[1].file_size_du = shared.sizes[root].size_du
                /\ es.index = "created"

C20_Witness ==
    /\ Completed
    /\ emptyindex
    /\ AllFlushed # <<>>
    /\ es.index = "created"

\* the directories of the subtree of d, d included, read off the filesystem
RECURSIVE Below(_, _)
Below(fs, d) ==
    {d} \cup UNION {Below(fs, fs[d].ents[i].d) :
                      i \in {j \in 1 .. Len(fs[d].ents) : fs[d].ents[j].k = "dir"}}

\* the positions in q of the file records of files in the directories ds
FilesAt(q, ds) == {j \in 1 .. Len(q) : q[j].type = "file" /\ q[j].ino[1] \in ds}

RECURSIVE SetSum(_, _)
SetSum(f, S) ==
    IF S = {} THEN 0
    ELSE LET x == CHOOSE y \in S : TRUE IN f[x] + SetSum(f, S \ {x})

\* C22: in a tree free of filesystem errors and no deeper than maxdepth,
\* every directory record in a task's batch sequence has file_count = the
\* number of file records emitted for files in its subtree, size and size_du
\* = the sums of those records' size and size_du, and every file record of
\* its subtree and every directory record of a descendant was appended
\* before it.
C22_DirectoryRecordSumsItsSubtree ==
    (NoErrors(tree) /\ DepthUnder(tree, root) <= maxdepth) =>
        \A t \in Tasks : \A i \in 1 .. Len(appended[t]) :
            LET q == appended[t]
                ds == Below(tree, q[i].ino[1])
                fl == FilesAt(q, ds)
            IN q[i].type = "directory" =>
                  /\ q[i].file_count = Cardinality(fl)
                  /\ q[i].size = SetSum([j \in fl |-> q[j].size], fl)
                  /\ q[i].size_du = SetSum([j \in fl |-> q[j].size_du], fl)
                  /\ \A j \in fl : j < i
                  /\ \A j \in 1 .. Len(q) :
                        (q[j].type = "directory" /\ j # i
                            /\ q[j].ino[1] \in ds) => j < i

C22_Witness ==
    /\ NoErrors(tree)
    /\ DepthUnder(tree, root) <= maxdepth
    /\ \E i \in 1 .. Len(appended[1]) :
          LET q == appended[1] IN
          /\ q[i].type = "directory"
          /\ q[i].ino[1] = 1
          /\ q[i].file_count = 2
          /\ q[i].size = 1 + MaxSize
          /\ \E j \in 1 .. i - 1 : q[j].type = "directory" /\ q[j].ino[1] = 3
          /\ \E j \in 1 .. i - 1 : q[j].type = "file" /\ q[j].ino[1] = 3

\* the flush at the head of the queue q is the one crawl_thread issues for
\* the remainder: it alone is followed by the update of total_documents
IsRemainder(q) == Len(q) >= 3 /\ q[3].op = "totaldocs"

\* C23: between steps a task's batch holds fewer than C records and holds
\* none while a flush of it is under way; a flush issued inside the
\* traversal carries exactly C records, the remainder flush between 1 and
\* C - 1; the batch is empty after every flush.
C23_BatchBoundedByChunkSize ==
    /\ [](\A t \in Tasks :
            /\ Len(documents[t]) < elastic_chunksize
            /\ PendingDocs(todo[t]) # <<>> => documents[t] = <<>>)
    /\ [][\A t \in Tasks :
            flushed'[t] # flushed[t] =>
                LET b == Head(todo[t]).docs IN
                /\ flushed'[t] = Append(flushed[t], b)
                /\ documents'[t] = <<>>
                /\ IF IsRemainder(todo[t])
                   THEN 1 <= Len(b) /\ Len(b) <= elastic_chunksize - 1
                   ELSE Len(b) = elastic_chunksize]_vars

C23_Witness ==
    \E t \in Tasks :
        /\ pc[t] = "done"
        /\ elastic_chunksize = MaxChunk
        /\ Len(flushed[t]) = 2
        /\ Len(flushed[t][1]) = elastic_chunksize
        /\ Len(flushed[t][2]) = elastic_chunksize - 1
        /\ documents[t] = <<>>

\* C25: the end summary record agrees with the root record written just
\* before it: file_size and file_size_du are the root record's size and
\* size_du, file_count and dir_count the root record's file_count and
\* dir_count.
C25_EndRecordAgreesWithRootRollup ==
    es.enddoc # <<>> =>
        /\ es.rootdoc # <<>>
        /\ es.enddoc[1].file_size = es.rootdoc[1].size
        /\ es.enddoc[1].file_size_du = es.rootdoc[1].size_du
        /\ es.enddoc[1].file_count = es.rootdoc[1].file_count
        /\ es.enddoc[1].dir_count = es.rootdoc[1].dir_count

\* C26: a crawl that was started and exits with status 0 or 78 has deleted
\* its index or has set the index settings back to the defaults.
C26_NonFatalExitLeavesNoTunedIndex ==
    (exit_code \in {<<EXIT_OK>>, <<EXIT_WARNINGS>>} /\ es.index # "none") =>
        es.index = "deleted" \/ es.settings = "default"

\* the locks a pool thread holds
Held(w) ==
    (IF w \in crawl_lock THEN {"crawl_lock"} ELSE {})
        \cup (IF w \in fileperm_lock THEN {"fileperm_lock"} ELSE {})

\* the thread is inside a blocking call or about to make the identity lookup
Blocking(w) == thread[w].at \in {"call", "miss"}

\* the thread waits for a lock another thread holds
Waiting(w) ==
    \/ thread[w].at = "wait" /\ ~CanAcquire(w)
    \/ thread[w].at = "resolved" /\ ~Free(StoreLocks)

\* C21: no thread holds crawl_lock and fileperm_lock together; no thread is
\* in a blocking call (directory listing, stat, identity lookup, flush) while
\* it holds a lock; a thread that holds a lock waits for none, so the threads
\* never all wait on a lock.
C21_LocksNeverNestedNorHeldAcrossCalls ==
    /\ \A w \in Workers :
          /\ Cardinality(Held(w)) <= 1
          /\ Blocking(w) => Held(w) = {}
          /\ Held(w) # {} => ~Waiting(w)
    /\ \E w \in Workers : ~Waiting(w)

C21_Witness ==
    \E w, u \in Workers :
        /\ w \in fileperm_lock
        /\ Waiting(u)
        /\ thread[u].at = "resolved"

\* the thread returns from get_owner_name / get_group_name in this step
Returns(w) == thread[w].at \in {"hit", "store"} /\ thread'[w].at = "run"

\* C24: a name resolution never raises; one that found the id in the cache
\* returns the cached value and makes no lookup; one that did not makes the
\* lookup and stores and returns the name if the lookup succeeds, the
\* numeric id if it fails; an id once cached stays cached.
C24_NameResolutionUsesCache ==
    /\ [](\A w \in Workers : thread[w].at # "raised")
    /\ [][\A w \in Workers :
            Returns(w) =>
                LET r == resolved'[w][1]
                    before == Cache(r.kind)
                    after == IF r.kind = "uid" THEN uid_name' ELSE gid_name'
                IN
                /\ r.kind = thread[w].kind /\ r.id = thread[w].id
                /\ r.id \in DOMAIN after /\ after[r.id] = r.value
                /\ r.present => ~r.looked /\ r.value = before[r.id]
                /\ ~r.present => r.looked
                /\ r.looked =>
                      r.value = IF r.found THEN pw_name(r.id)
                                ELSE Numeric(r.id)]_vars
    /\ [][/\ DOMAIN uid_name \subseteq DOMAIN uid_name'
          /\ DOMAIN gid_name \subseteq DOMAIN gid_name']_vars

\* two threads resolved the same uid at the same time with different
\* outcomes of the lookup, and a third resolution was served from the cache
C24_Witness ==
    /\ resolved[1] # <<>> /\ resolved[2] # <<>>
    /\ resolved[1][1].kind = "uid" /\ resolved[2][1].kind = "uid"
    /\ resolved[1][1].looked /\ ~resolved[1][1].found
    /\ resolved[2][1].present /\ ~resolved[2][1].looked
    /\ resolved[2][1].value = pw_name(1)
    /\ uid_name[1] = Numeric(1)
====
